---- MODULE Spec2Model ----
(***************************************************************************)
(* A model of the audio-stream-transcribe server: the WebSocketManager     *)
(* connection registry (dist/server/WebSocketManager.js) and the           *)
(* AudioStreamServer session pipeline (src/server/AudioStreamServer.ts).   *)
(*                                                                         *)
(* One action is one macrotask of the Node.js event loop: an inbound       *)
(* websocket event, a timer callback or the settlement of a provider       *)
(* promise, together with every microtask continuation it triggers.        *)
(***************************************************************************)
EXTENDS Naturals, Sequences, FiniteSets, TLC

\* ------------------------------------------------------------------ bounds

\* Websocket objects handed to handleConnection over a run.
MaxWs == 3
\* Audio frames accepted per session over a run.
MaxFrames == 3
\* stop-recording handlers suspended on one processing promise.
MaxStopWaiters == 2
\* Control messages handled per session over a run.
MaxControl == 2

\* ----------------------------------------------------------- configuration

\* options.maxConnectionsPerUser
MaxConnectionsPerUser == 2
\* options.pingInterval and options.pongTimeout, in units of the model clock
PingInterval == 3
PongTimeout == 1

Sessions == {"s1", "s2", "s3"}
Users == {"u1", "u2"}
\* userId is optional: NoUser stands for an undefined userId
NoUser == "none"
WS == 1..MaxWs
\* connections.get(sessionId) === undefined
NoConn == 0

VARIABLES
    \* WebSocketManager
    connections,      \* Map sessionId -> connection object (the websocket it wraps)
    userConnections,  \* Map userId -> Set of sessionId (a function on the keys present)
    conn,             \* per websocket: its connection object and the socket's readyState
    pongTimers,       \* per websocket: the pending pong-timeout timers (time left)
    tickIn,           \* time left until the next heartbeat tick
    age,              \* per websocket: time since its admission (capped)
    wsEvents,         \* per sessionId: connection-added / connection-removed emitted
    \* AudioStreamServer
    sessionBuffers,   \* Map sessionId -> Buffer[] (a function on the keys present)
    processingQueue,  \* Map sessionId -> Promise (the call it belongs to)
    calls,            \* outstanding transcriptionProvider.processAudio calls
    \* what the server has emitted and received
    events,           \* per sessionId: count of each server event emitted
    accepted,         \* per sessionId: audio frames pushed to the buffer so far
    issued,           \* per sessionId: payloads of the processAudio calls, in issue order
    transcribed,      \* per sessionId: calls whose result was delivered, in delivery order
    stopAck,          \* per sessionId: the state the latest recording-stopped was sent in
    closes,           \* per sessionId: close events of admitted websockets
    hist,             \* per sessionId: frames of the opening burst, stop-recording seen,
                      \* frames skipped while paused, text that failed to parse,
                      \* control messages handled,
                      \* outcomes of the settled calls
    sent,             \* per sessionId: messages written to the client, by message
    dropped,          \* per sessionId: frames found in the buffer by a close event
    provider,         \* how far transcriptionProvider.initialize() has got
    cleanupRun,       \* how far a call of AudioStreamServer.cleanup() has got
    \* AudioStreamClient
    client,           \* the fields of one client and the sockets it has created
    \* LLMProcessor
    llmOpts,          \* this.options, and whether the server constructed the processor
    llmHandler,       \* whether setLLMHandler has registered a handler
    batchMap,         \* Map sessionId -> batch (a function on the keys present)
    handlerCalls,     \* outstanding llmHandler invocations
    requests,         \* per sessionId: the llm-request payloads emitted, in order
    llmLog,           \* per sessionId: count of each processor event emitted
    srvLlm,           \* per sessionId: llm events emitted on the AudioStreamServer
    appended,         \* per sessionId: items pushed to batches so far
    settled,          \* per sessionId: how the handler invocations have ended
    flushRun,         \* a flushAll() call: what its Promise.all awaits, its return
    timers            \* per sessionId: the batch timeouts (time left) still
                      \* pending after their batch was flushed

vars == <<connections, userConnections, conn, pongTimers, tickIn, age, wsEvents,
          sessionBuffers, processingQueue, calls, events, accepted, issued,
          transcribed, stopAck, closes, hist, sent, dropped, provider, cleanupRun,
          client, llmOpts,
          llmHandler, batchMap, handlerCalls, requests, llmLog, srvLlm, appended, settled,
          flushRun, timers>>

regVars == <<connections, userConnections, conn, pongTimers, wsEvents>>
srvVars == <<sessionBuffers, processingQueue, calls>>
logVars == <<events, accepted, issued, transcribed, stopAck, closes, hist, sent>>
timeVars == <<tickIn, age>>
\* what the liveness protocol never writes to
quietVars == <<accepted, issued, transcribed, stopAck, closes, hist, sent>>
\* what no handler of the server writes to once the constructors and
\* initialize() are through, until cleanup() is called
cfgVars == <<llmOpts, provider, cleanupRun, client>>
llmVars == <<cfgVars, llmHandler, batchMap, handlerCalls, requests, llmLog, srvLlm,
             appended, settled, flushRun, timers>>

\* ----------------------------------------------------------------- helpers

\* Map.delete(k) on a function whose domain is the set of keys present
MapDelete(m, k) == [x \in (DOMAIN m) \ {k} |-> m[x]]

\* Map.set(k, v)
MapSet(m, k, v) == [x \in (DOMAIN m) \cup {k} |-> IF x = k THEN v ELSE m[x]]

Bump(f, k, field) == [f EXCEPT ![k][field] = @ + 1]

\* The sum of f over the keys of S
RECURSIVE Sum(_, _)
Sum(f, S) ==
    IF S = {} THEN 0
    ELSE LET x == CHOOSE y \in S : TRUE IN f[x] + Sum(f, S \ {x})

\* A websocket that has not been handed to handleConnection yet
NewConn ==
    [sid |-> "s1", uid |-> NoUser, isAlive |-> FALSE, isRecording |-> FALSE,
     isPaused |-> FALSE, ready |-> "new", code |-> 0, terminated |-> FALSE]

\* ------------------------------------------------------ WebSocketManager

\* The registry as one value: the two indices and the events emitted
Registry == [c |-> connections, u |-> userConnections, ev |-> wsEvents]

\* The admission check with the cap tested one too late
CapReachedOffByOne(R, u) ==
    /\ u # NoUser
    /\ MaxConnectionsPerUser # 0
    /\ u \in DOMAIN R.u
    /\ Cardinality(R.u[u]) > MaxConnectionsPerUser

\* addConnection's admission check
CapReached(R, u) ==
    /\ u # NoUser
    /\ MaxConnectionsPerUser # 0
    /\ u \in DOMAIN R.u
    /\ Cardinality(R.u[u]) >= MaxConnectionsPerUser

\* addConnection, when admitted: both indices and the connection-added event
AddConnection(R, w, s, u) ==
    [c  |-> [R.c EXCEPT ![s] = w],
     u  |-> IF u = NoUser THEN R.u
            ELSE IF u \in DOMAIN R.u THEN [R.u EXCEPT ![u] = @ \cup {s}]
            ELSE MapSet(R.u, u, {s}),
     ev |-> Bump(R.ev, s, "added")]

\* removeConnection that leaves the user's session set as it is
RemoveConnectionPrimaryOnly(R, s, uidOf) ==
    IF R.c[s] = NoConn THEN R
    ELSE [c |-> [R.c EXCEPT ![s] = NoConn], u |-> R.u,
          ev |-> Bump(R.ev, s, "removed")]

\* removeConnection without its early return for an unknown sessionId
RemoveConnectionUnguarded(R, s, uidOf) ==
    LET u == IF R.c[s] = NoConn THEN NoUser ELSE uidOf[R.c[s]]
        left == IF u # NoUser /\ u \in DOMAIN R.u THEN R.u[u] \ {s} ELSE {}
    IN [c  |-> [R.c EXCEPT ![s] = NoConn],
        u  |-> IF u = NoUser \/ u \notin DOMAIN R.u THEN R.u
               ELSE IF left = {} THEN MapDelete(R.u, u)
               ELSE [R.u EXCEPT ![u] = left],
        ev |-> Bump(R.ev, s, "removed")]

\* removeConnection(sessionId); uidOf gives each connection object's userId
RemoveConnection(R, s, uidOf) ==
    IF R.c[s] = NoConn THEN R
    ELSE LET u == uidOf[R.c[s]]
             left == IF u # NoUser /\ u \in DOMAIN R.u THEN R.u[u] \ {s} ELSE {}
         IN [c  |-> [R.c EXCEPT ![s] = NoConn],
             u  |-> IF u = NoUser \/ u \notin DOMAIN R.u THEN R.u
                    ELSE IF left = {} THEN MapDelete(R.u, u)
                    ELSE [R.u EXCEPT ![u] = left],
             ev |-> Bump(R.ev, s, "removed")]

\* getConnection(sessionId)
GetConnection(s) == connections[s]

\* getConnectionsByUser(userId): the sessionIds of the connections returned
GetConnectionsByUser(u) ==
    IF u \notin DOMAIN userConnections THEN {}
    ELSE {s \in userConnections[u] : connections[s] # NoConn}

\* sendMessage(sessionId, message): whether the message is written
CanSend(c, cn, s) == c[s] # NoConn /\ cn[c[s]].ready = "open"

UidOf == [w \in WS |-> conn[w].uid]

ControlTypes ==
    {"ping", "start-recording", "stop-recording", "pause-recording",
     "resume-recording", "unknown"}

Outcomes == {"text", "empty", "fail"}

\* The message handleControlMessage answers a control message of type t with
AckOf(t) ==
    CASE t = "ping" -> [type |-> "pong", timestamp |-> FALSE]
      [] t = "start-recording" -> [type |-> "recording-started", timestamp |-> TRUE]
      [] t = "stop-recording" -> [type |-> "recording-stopped", timestamp |-> TRUE]
      [] t = "pause-recording" -> [type |-> "recording-paused", timestamp |-> TRUE]
      [] t = "resume-recording" -> [type |-> "recording-resumed", timestamp |-> TRUE]

\* The message processAudioBuffer sends a result with
TranscriptionMsg == [type |-> "transcription", timestamp |-> FALSE]

\* The messages the server writes to a client
Messages == {AckOf(t) : t \in ControlTypes \ {"unknown"}} \cup {TranscriptionMsg}

\* sendMessage(sessionId, m), n times
Send(snt, c, cn, s, m, n) ==
    IF c[s] # NoConn /\ cn[c[s]].ready = "open" THEN [snt EXCEPT ![s][m] = @ + n]
    ELSE snt

\* No recording-stopped message has been sent yet
NoAck == [sid |-> "none", buffered |-> 0, outstanding |-> 0]

\* ---------------------------------------------------------------- initial

\* options.enableLLMProcessing is off: the server constructs no LLMProcessor
NoLLM ==
    [enabled |-> FALSE, includeAudio |-> FALSE, includeTranscript |-> FALSE,
     maxBatchSize |-> 0]

\* flushAll() has not been called
NoFlush == [st |-> "none", waits |-> {}]

\* No timeout has outlived its batch
NoTimers == [s \in Sessions |-> {}]

\* A constructed LLMProcessor: no batch, no handler, nothing emitted
InitLLM ==
    /\ llmHandler = FALSE
    /\ batchMap = <<>>
    /\ handlerCalls = {}
    /\ requests = [s \in Sessions |-> <<>>]
    /\ llmLog = [s \in Sessions |->
                   [request |-> 0, response |-> 0, error |-> 0, thrown |-> 0]]
    /\ srvLlm = [s \in Sessions |-> [request |-> 0, response |-> 0, error |-> 0]]
    /\ appended = [s \in Sessions |-> 0]
    /\ settled = [s \in Sessions |-> [ok |-> 0, fail |-> 0, okAfterFail |-> FALSE]]
    /\ flushRun = NoFlush
    /\ timers = NoTimers

\* The fields as the constructors leave them, all but the LLMProcessor options
Constructed ==
    /\ connections = [s \in Sessions |-> NoConn]
    /\ userConnections = <<>>
    /\ conn = [w \in WS |-> NewConn]
    /\ pongTimers = [w \in WS |-> {}]
    /\ tickIn = PingInterval
    /\ age = [w \in WS |-> 0]
    /\ wsEvents = [s \in Sessions |-> [added |-> 0, removed |-> 0]]
    /\ sessionBuffers = <<>>
    /\ processingQueue = <<>>
    /\ calls = {}
    /\ events = [s \in Sessions |->
                   [connection |-> 0, disconnection |-> 0, audioChunk |-> 0,
                    transcription |-> 0, error |-> 0]]
    /\ accepted = [s \in Sessions |-> 0]
    /\ issued = [s \in Sessions |-> <<>>]
    /\ transcribed = [s \in Sessions |-> <<>>]
    /\ stopAck = [s \in Sessions |-> NoAck]
    /\ closes = [s \in Sessions |-> 0]
    /\ hist = [s \in Sessions |->
                 [burst |-> 0, stops |-> FALSE, skipped |-> 0, unparsed |-> 0,
                  ctl |-> [x \in ControlTypes |-> 0],
                  results |-> [o \in Outcomes |-> 0]]]
    /\ sent = [s \in Sessions |-> [m \in Messages |-> 0]]
    /\ dropped = [s \in Sessions |-> {}]
    /\ cleanupRun = "none"
    /\ InitLLM

\* options.maxReconnectAttempts || 5
DefaultMaxReconnectAttempts == 5

\* WebSocket objects one client creates over a run
MaxSockets == 3
Sockets == 1..MaxSockets

\* The options of a client that does not reconnect
NoReconnect == [reconnect |-> FALSE, given |-> FALSE, maxReconnectAttempts |-> 0]

\* new AudioStreamClient(options): the field initialisers.  ws is 0 for
\* null; sock is the readyState of each WebSocket created and whether the
\* promise of its establishConnection has settled; waits are the connection
\* timeouts pending; pending counts the reconnection timeouts pending.
NewClient(o) ==
    [opts |-> o, ws |-> 0, connectionState |-> "DISCONNECTED",
     reconnectAttempts |-> 0, reconnectTimer |-> FALSE, pending |-> 0,
     sock |-> [k \in Sockets |-> [ready |-> "unused", settled |-> FALSE]],
     waits |-> {}, auto |-> 0, userClosed |-> FALSE]

\* A server whose provider has initialised
InitServer == Constructed /\ provider = "ready" /\ client = NewClient(NoReconnect)

\* The server as constructed without LLM processing
Init == InitServer /\ llmOpts = NoLLM

\* ----------------------------------------------------------- LLMProcessor

\* options.batchTimeout, in units of the model clock
BatchTimeout == 2
\* options.maxBatchSize of a processor constructed on its own
MaxBatchSize == 2
\* options.maxBatchSize ?? 10: the server passes none
DefaultMaxBatchSize == 10

\* The processor as one value: its batches, the handler invocations
\* outstanding, the requests and events emitted, the items accepted
LLM ==
    [bm |-> batchMap, hc |-> handlerCalls, rq |-> requests, log |-> llmLog,
     sv |-> srvLlm, n |-> appended, st |-> settled, fa |-> flushRun,
     tm |-> timers]

\* The batch getOrCreateBatch creates, its timer armed with batchTimeout
NewBatch ==
    [audio |-> <<>>, transcripts |-> <<>>, timer |-> BatchTimeout, age |-> 0,
     armed |-> 1]

\* getOrCreateBatch that arms a fresh timer on every call
GetOrCreateBatchRearm(L, s) ==
    IF s \in DOMAIN L.bm
    THEN [L EXCEPT !.bm[s].timer = BatchTimeout, !.bm[s].armed = 2]
    ELSE [L EXCEPT !.bm = MapSet(@, s, NewBatch)]

\* getOrCreateBatch(sessionId)
GetOrCreateBatch(L, s) ==
    IF s \in DOMAIN L.bm THEN L
    ELSE [L EXCEPT !.bm = MapSet(@, s, NewBatch)]

\* The server's listener for llm-request is attached to the processor: the
\* constructor adds it, the processor's cleanup() removes all listeners
Forwarding == llmOpts.enabled /\ cleanupRun \in {"none", "flushing"}

\* The llm-request event: the server's listener forwards it
EmitRequest(L, s, b) ==
    [L EXCEPT !.rq[s] = Append(@, [audio |-> b.audio, transcripts |-> b.transcripts]),
              !.log[s].request = @ + 1,
              !.sv[s].request = IF Forwarding THEN @ + 1 ELSE @]

\* processBatch that leaves the batch in the map
ProcessBatchKeeps(L, s) ==
    IF s \notin DOMAIN L.bm THEN L
    ELSE LET b == L.bm[s]
         IN IF b.audio = <<>> /\ b.transcripts = <<>> THEN L
            ELSE LET E == EmitRequest(L, s, b)
                 IN IF llmHandler
                    THEN [E EXCEPT !.hc = @ \cup {[sid |-> s, id |-> Len(E.rq[s])]}]
                    ELSE E

\* processBatch that leaves the timeout of batch b pending
ClearTimeoutMissing(L, s, b) == [L EXCEPT !.tm[s] = @ \cup {b.timer}]

\* clearTimeout(batch.timer) of processBatch: the timeout of batch b is
\* cancelled, so none is left pending
ClearTimeout(L, s, b) == L

\* processBatch(sessionId), up to its await of the handler
ProcessBatch(L, s) ==
    IF s \notin DOMAIN L.bm THEN L
    ELSE LET b == L.bm[s]
             D == ClearTimeout([L EXCEPT !.bm = MapDelete(@, s)], s, b)
         IN IF b.audio = <<>> /\ b.transcripts = <<>> THEN D
            ELSE LET E == EmitRequest(D, s, b)
                 IN IF llmHandler
                    THEN [E EXCEPT !.hc = @ \cup {[sid |-> s, id |-> Len(E.rq[s])]}]
                    ELSE E

\* checkBatchSize that flushes one item late
CheckBatchSizeLate(L, s) ==
    IF s \notin DOMAIN L.bm THEN L
    ELSE IF Len(L.bm[s].audio) + Len(L.bm[s].transcripts) > llmOpts.maxBatchSize
    THEN ProcessBatch(L, s)
    ELSE L

\* checkBatchSize(sessionId)
CheckBatchSize(L, s) ==
    IF s \notin DOMAIN L.bm THEN L
    ELSE IF Len(L.bm[s].audio) + Len(L.bm[s].transcripts) >= llmOpts.maxBatchSize
    THEN ProcessBatch(L, s)
    ELSE L

\* processAudioChunk that ignores options.includeAudio
ProcessAudioChunkAlways(L, s) ==
    LET G == GetOrCreateBatch(L, s)
        P == [G EXCEPT !.bm[s].audio = Append(@, L.n[s] + 1), !.n[s] = @ + 1]
    IN CheckBatchSize(P, s)

\* processAudioChunk(chunk) for a chunk of session s
ProcessAudioChunk(L, s) ==
    IF ~llmOpts.includeAudio THEN L
    ELSE LET G == GetOrCreateBatch(L, s)
             P == [G EXCEPT !.bm[s].audio = Append(@, L.n[s] + 1), !.n[s] = @ + 1]
         IN CheckBatchSize(P, s)

\* processTranscription(sessionId, result)
ProcessTranscription(L, s) ==
    IF ~llmOpts.includeTranscript THEN L
    ELSE LET G == GetOrCreateBatch(L, s)
             P == [G EXCEPT !.bm[s].transcripts = Append(@, L.n[s] + 1), !.n[s] = @ + 1]
         IN CheckBatchSize(P, s)

\* processBatch for each sessionId of S, as flushAll starts them
RECURSIVE ProcessAll(_, _)
ProcessAll(L, S) ==
    IF S = {} THEN L
    ELSE LET s == CHOOSE x \in S : TRUE
         IN ProcessAll(ProcessBatch(L, s), S \ {s})

\* An await that resumes as soon as one of the promises has settled
PromiseRace(fa, hc) ==
    IF fa.st = "waiting" /\ (fa.waits = {} \/ fa.waits \ hc # {})
    THEN [fa EXCEPT !.st = "returned"] ELSE fa

\* await Promise.all(...) of flushAll: it resumes, and flushAll returns, once
\* every processBatch promise has settled; hc are the handler invocations
\* still outstanding
PromiseAll(fa, hc) ==
    IF fa.st = "waiting" /\ fa.waits \cap hc = {}
    THEN [fa EXCEPT !.st = "returned"] ELSE fa

\* flushAll(): processBatch is started for every key of batchMap and the
\* promises are awaited together
FlushAllCall(L) ==
    LET P == ProcessAll(L, DOMAIN L.bm)
    IN [P EXCEPT !.fa = PromiseAll([st |-> "waiting", waits |-> P.hc \ L.hc], P.hc)]

\* A processBatch promise has settled: what awaits it resumes
Resume(L) == [L EXCEPT !.fa = PromiseAll(@, L.hc)]

\* The handler's promise is fulfilled: llm-response is emitted
HandlerReturned(L, c) ==
    [L EXCEPT !.hc = @ \ {c}, !.log[c.sid].response = @ + 1,
              !.st[c.sid].ok = @ + 1,
              !.st[c.sid].okAfterFail = @ \/ L.st[c.sid].fail > 0]

\* A handler failure that processBatch lets escape
HandlerFailedThrows(L, c) ==
    [L EXCEPT !.hc = @ \ {c}, !.log[c.sid].thrown = @ + 1,
              !.st[c.sid].fail = @ + 1]

\* The handler's promise is rejected: processBatch catches, emits llm-error
HandlerFailed(L, c) ==
    [L EXCEPT !.hc = @ \ {c}, !.log[c.sid].error = @ + 1,
              !.st[c.sid].fail = @ + 1]

\* The processor's variables take the values of L
SetLLM(L) ==
    /\ batchMap' = L.bm
    /\ handlerCalls' = L.hc
    /\ requests' = L.rq
    /\ llmLog' = L.log
    /\ srvLlm' = L.sv
    /\ appended' = L.n
    /\ settled' = L.st
    /\ flushRun' = L.fa
    /\ timers' = L.tm

\* ------------------------------------------------------ AudioStreamServer

\* websocket.close(1008, 'Max connections exceeded')
RejectCode == 1008

\* handleConnection(params) for a websocket w not seen before
HandleConnection(w, s, u) ==
    /\ conn[w].ready = "new"
    /\ \A v \in WS : v < w => conn[v].ready # "new"
    /\ IF CapReached(Registry, u)
       THEN /\ conn' = [conn EXCEPT ![w].ready = "closed", ![w].code = RejectCode,
                                     ![w].sid = s, ![w].uid = u]
            /\ UNCHANGED <<connections, userConnections, wsEvents, sessionBuffers,
                           events, age>>
       ELSE LET R == AddConnection(Registry, w, s, u)
            IN /\ connections' = R.c
               /\ userConnections' = R.u
               /\ wsEvents' = R.ev
               /\ conn' = [conn EXCEPT ![w] =
                             [sid |-> s, uid |-> u, isAlive |-> TRUE,
                              isRecording |-> FALSE, isPaused |-> FALSE,
                              ready |-> "open", code |-> 0,
                              terminated |-> FALSE]]
               /\ sessionBuffers' = MapSet(sessionBuffers, s, <<>>)
               /\ events' = Bump(events, s, "connection")
               /\ age' = [age EXCEPT ![w] = 0]
    /\ UNCHANGED <<pongTimers, tickIn, processingQueue, calls, accepted, issued,
                   transcribed, stopAck, closes, hist, sent, dropped, llmVars>>

\* The frames a disconnection of the sessionIds of S finds buffered
DropAt(S) ==
    [s \in Sessions |->
       IF s \in S /\ s \in DOMAIN sessionBuffers
       THEN dropped[s] \cup {sessionBuffers[s][i] : i \in 1..Len(sessionBuffers[s])}
       ELSE dropped[s]]

\* handleDisconnection(sessionId) on registry R, server maps b, q, events e
\* and processor L
HandleDisconnection(R, b, q, e, L, s) ==
    IF R.c[s] = NoConn
    THEN [R |-> R, b |-> b, q |-> q, e |-> e, L |-> L]
    ELSE [R |-> RemoveConnection(R, s, UidOf),
          b |-> MapDelete(b, s),
          q |-> MapDelete(q, s),
          e |-> Bump(e, s, "disconnection"),
          L |-> IF llmOpts.enabled THEN ProcessBatch(L, s) ELSE L]

\* The websocket's 'close' event: its listeners run in the order they were
\* registered, WebSocketManager's (addConnection) before AudioStreamServer's
\* (handleConnection).
CloseEffect(R, b, q, e, L, s) ==
    HandleDisconnection(RemoveConnection(R, s, UidOf), b, q, e, L, s)

\* The 'close' event of websocket w
CloseHandlers(w) ==
    LET s == conn[w].sid
        D == CloseEffect(Registry, sessionBuffers, processingQueue, events, LLM, s)
    IN /\ connections' = D.R.c
       /\ userConnections' = D.R.u
       /\ wsEvents' = D.R.ev
       /\ sessionBuffers' = D.b
       /\ processingQueue' = D.q
       /\ events' = D.e
       /\ closes' = [closes EXCEPT ![s] = @ + 1]
       /\ conn' = [conn EXCEPT ![w].ready = "closed"]
       /\ dropped' = DropAt({s})
       /\ SetLLM(D.L)
       /\ UNCHANGED <<pongTimers, tickIn, age, calls, accepted, issued, transcribed,
                      stopAck, hist, sent, cfgVars, llmHandler>>

\* The peer closes an open admitted websocket
ClientClose(w) ==
    /\ conn[w].ready = "open"
    /\ CloseHandlers(w)

\* The 'close' event of a websocket that ws.terminate() destroyed
TerminatedClose(w) ==
    /\ conn[w].ready = "closing"
    /\ CloseHandlers(w)

\* processAudioBuffer without its return for an unregistered sessionId
CanDispatchUnregistered(b, c, s) ==
    /\ s \in DOMAIN b
    /\ b[s] # <<>>

\* processAudioBuffer(sessionId) gets past its two early returns
CanDispatch(b, c, s) ==
    /\ s \in DOMAIN b
    /\ b[s] # <<>>
    /\ c[s] # NoConn

\* The processAudio call that processAudioBuffer issues for session s
NewCall(s, kind) ==
    [sid |-> s, id |-> Len(issued[s]) + 1, kind |-> kind, waiters |-> 0]

\* The state a recording-stopped acknowledgement is sent in
AckSeen(s, b, cs) ==
    [sid |-> s,
     buffered |-> IF s \in DOMAIN b THEN Len(b[s]) ELSE 0,
     outstanding |-> Cardinality({c \in cs : c.sid = s})]

\* No processAudio call of session s has settled yet
NoneSettled(s) == Len(issued[s]) = Cardinality({c \in calls : c.sid = s})

\* handleAudioData's guard of the dispatch
Locked(q, s) == s \in DOMAIN q

\* The frames handleAudioData has pushed or, the session paused, skipped
Received(s) == accepted[s] + hist[s].skipped

\* handleAudioData that has no test of isPaused
ReturnsEarlyUnpaused(c, s) ==
    c = NoConn \/ s \notin DOMAIN sessionBuffers

\* handleAudioData returns before it pushes the frame
ReturnsEarly(c, s) ==
    c = NoConn \/ conn[c].isPaused \/ s \notin DOMAIN sessionBuffers

\* handleAudioData(sessionId, audioData) for a binary frame on websocket w
HandleAudioData(w) ==
    LET s == conn[w].sid
        c == connections[s]
    IN /\ conn[w].ready = "open"
       /\ Received(s) < MaxFrames
       /\ IF ReturnsEarly(c, s)
          THEN /\ hist' = IF c # NoConn /\ conn[c].isPaused
                          THEN [hist EXCEPT ![s].skipped = @ + 1] ELSE hist
               /\ UNCHANGED <<sessionBuffers, processingQueue, calls, events,
                              accepted, issued, batchMap, handlerCalls, requests,
                              llmLog, srvLlm, appended, settled, flushRun,
                              timers>>
          ELSE LET pushed == Append(sessionBuffers[s], accepted[s] + 1)
               IN /\ accepted' = [accepted EXCEPT ![s] = @ + 1]
                  /\ SetLLM(IF llmOpts.enabled THEN ProcessAudioChunk(LLM, s) ELSE LLM)
                  /\ hist' = IF NoneSettled(s)
                             THEN [hist EXCEPT ![s].burst = @ + 1] ELSE hist
                  /\ events' = Bump(events, s, "audioChunk")
                  /\ IF ~Locked(processingQueue, s)
                     THEN /\ sessionBuffers' = [sessionBuffers EXCEPT ![s] = <<>>]
                          /\ issued' = [issued EXCEPT ![s] = Append(@, pushed)]
                          /\ calls' = calls \cup {NewCall(s, "frame")}
                          /\ processingQueue' =
                               MapSet(processingQueue, s, Len(issued[s]) + 1)
                     ELSE /\ sessionBuffers' = [sessionBuffers EXCEPT ![s] = pushed]
                          /\ UNCHANGED <<issued, calls, processingQueue>>
       /\ UNCHANGED <<regVars, timeVars, transcribed, stopAck, closes, sent, dropped,
                      cfgVars, llmHandler>>

\* The latest acknowledgement, after those of `acks` (all alike) are sent
Acked(a, s, acks) ==
    IF acks = {} THEN a ELSE [a EXCEPT ![s] = CHOOSE x \in acks : TRUE]

\* processBufferedAudio(sessionId) followed by the recording-stopped message,
\* for n stop-recording handlers that reach `await processAudioBuffer` in the
\* same turn: the first one takes the buffer, the others find it empty.  The
\* result is the server maps, the calls and the acknowledgements sent.
FinalDispatch(b, cs, s, n) ==
    IF n = 0
    THEN [b |-> b, calls |-> cs, iss |-> issued[s], acks |-> {}, n |-> 0]
    ELSE IF CanDispatch(b, connections, s)
    THEN LET cs2 == cs \cup {NewCall(s, "final")}
             b2 == [b EXCEPT ![s] = <<>>]
         IN [b |-> b2, calls |-> cs2, iss |-> Append(issued[s], b[s]),
             acks |-> IF n > 1 /\ CanSend(connections, conn, s)
                      THEN {AckSeen(s, b2, cs2)} ELSE {},
             n |-> n - 1]
    ELSE [b |-> b, calls |-> cs, iss |-> issued[s],
          acks |-> IF CanSend(connections, conn, s)
                   THEN {AckSeen(s, b, cs)} ELSE {},
          n |-> n]

\* handleControlMessage(sessionId, message), case 'stop-recording'
StopRecording(s) ==
    /\ conn' = [conn EXCEPT ![connections[s]].isRecording = FALSE]
    /\ IF Locked(processingQueue, s)
       THEN \* await ongoingProcessing
            /\ \E c \in calls :
                 /\ c.sid = s /\ c.id = processingQueue[s]
                 /\ c.waiters < MaxStopWaiters
                 /\ calls' = (calls \ {c}) \cup {[c EXCEPT !.waiters = @ + 1]}
            /\ UNCHANGED <<sessionBuffers, issued, stopAck, sent>>
       ELSE LET F == FinalDispatch(sessionBuffers, calls, s, 1)
            IN /\ sessionBuffers' = F.b
               /\ calls' = F.calls
               /\ issued' = [issued EXCEPT ![s] = F.iss]
               /\ stopAck' = Acked(stopAck, s, F.acks)
               /\ sent' = Send(sent, connections, conn, s, AckOf("stop-recording"),
                               F.n)

\* The control messages handled so far for session s
Handled(s) == Sum(hist[s].ctl, ControlTypes)

\* A default case that reports the unknown type as an error event
DefaultCaseError(e, s) == Bump(e, s, "error")

\* The default case of handleControlMessage's switch: console.warn, no event
DefaultCase(e, s) == e

\* handleControlMessage(sessionId, message) for a JSON message on websocket w
HandleControlMessage(w, type) ==
    LET s == conn[w].sid
        c == connections[s]
    IN /\ conn[w].ready = "open"
       /\ Handled(s) < MaxControl
       /\ hist' = IF c # NoConn
                  THEN [hist EXCEPT ![s].stops = @ \/ type = "stop-recording",
                                    ![s].ctl[type] = @ + 1]
                  ELSE hist
       /\ events' = IF c # NoConn /\ type \notin ControlTypes \ {"unknown"}
                    THEN DefaultCase(events, s) ELSE events
       /\ IF c = NoConn
          THEN UNCHANGED <<conn, sessionBuffers, calls, issued, stopAck, sent>>
          ELSE CASE type = "ping" ->
                      /\ sent' = Send(sent, connections, conn, s, AckOf(type), 1)
                      /\ UNCHANGED <<conn, sessionBuffers, calls, issued, stopAck>>
                 [] type = "start-recording" ->
                      /\ conn' = [conn EXCEPT ![c].isRecording = TRUE]
                      /\ sent' = Send(sent, connections, conn, s, AckOf(type), 1)
                      /\ UNCHANGED <<sessionBuffers, calls, issued, stopAck>>
                 [] type = "stop-recording" -> StopRecording(s)
                 [] type = "pause-recording" ->
                      /\ conn' = [conn EXCEPT ![c].isPaused = TRUE]
                      /\ sent' = Send(sent, connections, conn, s, AckOf(type), 1)
                      /\ UNCHANGED <<sessionBuffers, calls, issued, stopAck>>
                 [] type = "resume-recording" ->
                      /\ conn' = [conn EXCEPT ![c].isPaused = FALSE]
                      /\ sent' = Send(sent, connections, conn, s, AckOf(type), 1)
                      /\ UNCHANGED <<sessionBuffers, calls, issued, stopAck>>
                 [] OTHER ->
                      UNCHANGED <<conn, sessionBuffers, calls, issued, stopAck, sent>>
       /\ UNCHANGED <<connections, userConnections, pongTimers, wsEvents, timeVars,
                      processingQueue, accepted, transcribed, closes, dropped,
                      llmVars>>

\* A `finally` that clears the whole processingQueue
ReleaseAllLocks(q, s) == <<>>

\* handleAudioData's `finally`, run when its processing promise settles
ReleaseLock(q, s) == MapDelete(q, s)

\* processAudioBuffer that sends whatever result it gets
DeliveredAlways(snt, s, outcome) ==
    IF outcome # "fail"
    THEN Send(snt, connections, conn, s, TranscriptionMsg, 1) ELSE snt

\* The 'transcription' message of processAudioBuffer: sent when the call
\* returns a result whose transcript is not empty
Delivered(snt, s, outcome) ==
    IF outcome = "text"
    THEN Send(snt, connections, conn, s, TranscriptionMsg, 1) ELSE snt

\* A processAudio call settles: the rest of processAudioBuffer, then what
\* awaits its promise (handleAudioData's finally, then the stop-recording
\* handlers suspended in processBufferedAudio), or the stop-recording handler
\* that issued it.
CallComplete(c, outcome) ==
    LET s == c.sid
        rest == calls \ {c}
        n == IF c.kind = "frame" THEN c.waiters ELSE 0
        F == FinalDispatch(sessionBuffers, rest, s, n)
    IN /\ c \in calls
       /\ hist' = [hist EXCEPT ![s].results[outcome] = @ + 1]
       /\ CASE outcome = "text" ->
                 /\ events' = Bump(events, s, "transcription")
                 /\ transcribed' = [transcribed EXCEPT ![s] = Append(@, c.id)]
                 /\ SetLLM(IF llmOpts.enabled THEN ProcessTranscription(LLM, s)
                           ELSE LLM)
            [] outcome = "empty" ->
                 /\ SetLLM(LLM)
                 /\ UNCHANGED <<events, transcribed>>
            [] outcome = "fail" ->
                 /\ events' = Bump(events, s, "error")
                 /\ SetLLM(LLM)
                 /\ UNCHANGED transcribed
       /\ IF c.kind = "frame"
          THEN /\ processingQueue' = ReleaseLock(processingQueue, s)
               /\ sessionBuffers' = F.b
               /\ calls' = F.calls
               /\ issued' = [issued EXCEPT ![s] = F.iss]
               /\ stopAck' = Acked(stopAck, s, F.acks)
               /\ sent' = Send(Delivered(sent, s, outcome), connections, conn, s,
                               AckOf("stop-recording"), F.n)
          ELSE /\ calls' = rest
               /\ stopAck' = Acked(stopAck, s,
                    IF CanSend(connections, conn, s)
                    THEN {AckSeen(s, sessionBuffers, rest)} ELSE {})
               /\ sent' = Send(Delivered(sent, s, outcome), connections, conn, s,
                               AckOf("stop-recording"), 1)
               /\ UNCHANGED <<processingQueue, sessionBuffers, issued>>
       /\ UNCHANGED <<regVars, timeVars, accepted, closes, dropped, cfgVars,
                      llmHandler>>

\* What a websocket message may be: a string or a Buffer, whose text is no
\* JSON ("none"), the JSON null, a JSON value without properties of its own
\* ("scalar"), an object without a type, or an object with a type
Data ==
    [string : BOOLEAN, json : {"none", "null", "scalar", "object"},
     type : {"unknown"}]
    \cup [string : BOOLEAN, json : {"typed"}, type : ControlTypes]

\* isJSON(data): JSON.parse succeeds on the text
IsJSON(d) == d.json # "none"

\* The catch of the message handler: what was thrown becomes an error event
MessageError(w, field) ==
    LET s == conn[w].sid
    IN /\ events' = Bump(events, s, "error")
       /\ hist' = [hist EXCEPT ![s][field] = @ + 1]
       /\ UNCHANGED <<regVars, timeVars, srvVars, accepted, issued, transcribed,
                      stopAck, closes, sent, dropped, llmVars>>

\* handleControlMessage(sessionId, null): past the registry check,
\* message.type throws
HandleNull(w) ==
    LET s == conn[w].sid
    IN IF connections[s] = NoConn THEN UNCHANGED vars
       ELSE /\ events' = Bump(events, s, "error")
            /\ hist' = [hist EXCEPT ![s].ctl["unknown"] = @ + 1]
            /\ UNCHANGED <<regVars, timeVars, srvVars, accepted, issued,
                           transcribed, stopAck, closes, sent, dropped, llmVars>>

\* The 'message' listener of handleConnection for data d on websocket w
OnMessage(w, d) ==
    /\ conn[w].ready = "open"
    /\ IF d.string \/ IsJSON(d)
       THEN /\ Handled(conn[w].sid) + hist[conn[w].sid].unparsed < MaxControl
            /\ CASE d.json = "none" -> MessageError(w, "unparsed")
                 [] d.json = "null" -> HandleNull(w)
                 [] OTHER -> HandleControlMessage(w, d.type)
       ELSE HandleAudioData(w)

\* ------------------------------------------------- WebSocketManager liveness

\* ws.terminate(): the socket is destroyed, its 'close' event follows
Terminate(cn) ==
    IF cn.ready = "open"
    THEN [cn EXCEPT !.ready = "closing", !.terminated = TRUE]
    ELSE cn

\* A liveness termination that the server reports as an error
ReapedAsError(R, e, s) ==
    [R |-> RemoveConnection(R, s, UidOf), e |-> Bump(e, s, "error")]

\* The liveness protocol gives up on sessionId s: after ws.terminate(),
\* removeConnection; no event of the server is emitted
Reaped(R, e, s) == [R |-> RemoveConnection(R, s, UidOf), e |-> e]

\* The registry and the server's events after each sessionId of S is reaped,
\* as the heartbeat loop does
RECURSIVE RemoveAll(_, _, _)
RemoveAll(R, e, S) ==
    IF S = {} THEN [R |-> R, e |-> e]
    ELSE LET s == CHOOSE x \in S : TRUE
             X == Reaped(R, e, s)
         IN RemoveAll(X.R, X.e, S \ {s})

\* Entries of `connections` the heartbeat finds not alive / alive
NotAlive == {s \in Sessions : connections[s] # NoConn /\ ~conn[connections[s]].isAlive}
Alive == {s \in Sessions : connections[s] # NoConn /\ conn[connections[s]].isAlive}

\* The setInterval callback of startPingInterval
Heartbeat ==
    LET X == RemoveAll(Registry, events, NotAlive)
    IN /\ connections' = X.R.c
       /\ userConnections' = X.R.u
       /\ wsEvents' = X.R.ev
       /\ events' = X.e
       /\ conn' = [w \in WS |->
                     IF \E s \in NotAlive : connections[s] = w THEN Terminate(conn[w])
                     ELSE IF \E s \in Alive : connections[s] = w
                     THEN [conn[w] EXCEPT !.isAlive = FALSE]
                     ELSE conn[w]]
       /\ pongTimers' = [w \in WS |->
                           IF \E s \in Alive : connections[s] = w
                           THEN pongTimers[w] \cup {PongTimeout}
                           ELSE pongTimers[w]]
       /\ dropped' = DropAt(NotAlive)

\* The setTimeout callback armed with a ping: connection and sessionId are
\* the ones captured when the ping was sent
PongCheck(w, t) ==
    /\ t \in pongTimers[w]
    /\ pongTimers' = [pongTimers EXCEPT ![w] = @ \ {t}]
    /\ IF ~conn[w].isAlive
       THEN LET X == Reaped(Registry, events, conn[w].sid)
            IN /\ conn' = [conn EXCEPT ![w] = Terminate(@)]
               /\ connections' = X.R.c
               /\ userConnections' = X.R.u
               /\ wsEvents' = X.R.ev
               /\ events' = X.e
               /\ dropped' = DropAt({conn[w].sid})
       ELSE UNCHANGED <<conn, connections, userConnections, wsEvents, events,
                        dropped>>

\* The heartbeat tick, with time abstracted: at most one pong timer is
\* pending per connection when it is pinged again
Tick ==
    /\ \A s \in Alive : pongTimers[connections[s]] = {}
    /\ Heartbeat
    /\ UNCHANGED <<timeVars, srvVars, quietVars, llmVars>>

\* A pong timer fires, with time abstracted
PongTimeoutFire(w) ==
    /\ \E t \in pongTimers[w] : PongCheck(w, t)
    /\ UNCHANGED <<timeVars, srvVars, quietVars, llmVars>>

\* ws.on('pong'): the peer answers a ping
Pong(w) ==
    /\ conn[w].ready = "open"
    /\ conn' = [conn EXCEPT ![w].isAlive = TRUE]
    /\ age' = [age EXCEPT ![w] = 0]
    /\ UNCHANGED <<connections, userConnections, pongTimers, wsEvents, tickIn,
                   srvVars, logVars, llmVars, dropped>>

\* ------------------------------------------------------ AudioStreamClient

\* What a step of the client leaves alone
srvSide == <<regVars, timeVars, srvVars, logVars, dropped, llmOpts, provider,
             cleanupRun, llmHandler, batchMap, handlerCalls, requests, llmLog,
             srvLlm, appended, settled, flushRun, timers>>

\* options.maxReconnectAttempts || 5
MaxAttempts(o) ==
    IF o.given /\ o.maxReconnectAttempts # 0 THEN o.maxReconnectAttempts
    ELSE DefaultMaxReconnectAttempts

\* ws.close() on socket k of client c
CloseSocket(c, k) ==
    IF k # 0 /\ c.sock[k].ready \in {"connecting", "open"}
    THEN [c EXCEPT !.sock[k].ready = "closing"]
    ELSE c

\* The socket the next new WebSocket(url) is
FreshSocket(c) == Cardinality({k \in Sockets : c.sock[k].ready # "unused"}) + 1

\* connect(), up to the await of establishConnection
ConnectCall(c) ==
    IF c.connectionState = "CONNECTED" THEN c
    ELSE LET k == FreshSocket(c)
         IN [c EXCEPT !.connectionState = "CONNECTING",
                      !.ws = k,
                      !.sock[k].ready = "connecting",
                      !.waits = @ \cup {k}]

\* connect() creates no socket, or one is left to create
MayConnect(c) == c.connectionState = "CONNECTED" \/ FreshSocket(c) \in Sockets

\* The application calls connect()
Connect ==
    /\ client.connectionState # "CONNECTED"
    /\ MayConnect(client)
    /\ client' = [ConnectCall(client) EXCEPT !.userClosed = FALSE]
    /\ UNCHANGED srvSide

\* ws.onopen of socket k
SocketOpen(k) ==
    /\ client.sock[k].ready = "connecting"
    /\ client' = [client EXCEPT !.sock[k] = [ready |-> "open", settled |-> TRUE],
                                !.connectionState = "CONNECTED",
                                !.reconnectAttempts = 0,
                                !.auto = 0]
    /\ UNCHANGED srvSide

\* scheduleReconnection()
ScheduleReconnection(c) ==
    IF c.reconnectTimer THEN c
    ELSE [c EXCEPT !.connectionState = "RECONNECTING", !.reconnectTimer = TRUE,
                   !.pending = @ + 1]

\* handleDisconnection(reason); the client is not recording
ClientDisconnection(c) ==
    LET d == [c EXCEPT !.connectionState = "DISCONNECTED"]
    IN IF c.opts.reconnect /\ c.reconnectAttempts < MaxAttempts(c.opts)
       THEN ScheduleReconnection(d)
       ELSE d

\* ws.onclose of socket k: the connection failed, or was closed by either
\* side.  handleDisconnection leaves connectionState other than CONNECTING,
\* so the handler's reject is never reached.
SocketClose(k) ==
    /\ client.sock[k].ready \in {"connecting", "open", "closing"}
    /\ client' = ClientDisconnection([client EXCEPT !.sock[k].ready = "closed"])
    /\ UNCHANGED srvSide

\* The reconnection timeout fires
ReconnectTimerFire ==
    /\ client.pending > 0
    /\ MayConnect(client)
    /\ LET c == [client EXCEPT !.pending = @ - 1, !.reconnectTimer = FALSE,
                               !.reconnectAttempts = @ + 1]
           d == ConnectCall(c)
       IN client' = [d EXCEPT !.auto = IF d.ws # c.ws THEN @ + 1 ELSE @]
    /\ UNCHANGED srvSide

\* The application calls disconnect()
Disconnect ==
    /\ LET c == IF client.reconnectTimer
                THEN [client EXCEPT !.reconnectTimer = FALSE, !.pending = @ - 1]
                ELSE client
       IN client' = [CloseSocket(c, c.ws) EXCEPT !.ws = 0,
                                                 !.connectionState = "DISCONNECTED",
                                                 !.userClosed = TRUE]
    /\ UNCHANGED srvSide

\* The connection timeout of establishConnection for socket k fires: while
\* CONNECTING it closes this.ws and rejects; connect() catches a rejection
\* of a promise that had not settled and sets ERROR
ConnectTimeout(k) ==
    /\ k \in client.waits
    /\ LET c == [client EXCEPT !.waits = @ \ {k}]
       IN client' =
            IF c.connectionState # "CONNECTING" THEN c
            ELSE LET d == CloseSocket(c, c.ws)
                 IN IF d.sock[k].settled THEN d
                    ELSE [d EXCEPT !.sock[k].settled = TRUE,
                                   !.connectionState = "ERROR"]
    /\ UNCHANGED srvSide

\* The options a client is constructed with
ClientOptions ==
    [reconnect : BOOLEAN, given : {TRUE}, maxReconnectAttempts : {0, 1, 2}]
    \cup [reconnect : BOOLEAN, given : {FALSE}, maxReconnectAttempts : {0}]

InitClient ==
    /\ Constructed
    /\ provider = "ready"
    /\ llmOpts = NoLLM
    /\ client \in {NewClient(o) : o \in ClientOptions}

\* One client: the calls of its application, the events of its sockets and
\* its timers.  Its ping interval is left out: a socket may close at any
\* time, which is all a missed pong brings about.
NextClient ==
    \/ Connect
    \/ Disconnect
    \/ \E k \in Sockets : SocketOpen(k)
    \/ \E k \in Sockets : SocketClose(k)
    \/ \E k \in Sockets : ConnectTimeout(k)
    \/ ReconnectTimerFire

SpecClient == InitClient /\ [][NextClient]_vars

\* ---------------------------------------------------------- specifications

\* Websockets and sessions of the session-pipeline specification
MaxPipeWs == 1
PipeSessions == {"s1"}
PipeUsers == {"u1"}

\* The session pipeline: admission, close, audio frames, control messages and
\* the settlement of transcription calls; no heartbeat tick falls in the run.
Next ==
    \/ \E w \in 1..MaxPipeWs, s \in PipeSessions, u \in PipeUsers :
         HandleConnection(w, s, u)
    \/ \E w \in WS : ClientClose(w)
    \/ \E w \in WS : HandleAudioData(w)
    \/ \E w \in WS, type \in ControlTypes : HandleControlMessage(w, type)
    \/ \E c \in calls, o \in Outcomes : CallComplete(c, o)

Spec == Init /\ [][Next]_vars

\* sessionIds and userIds are opaque to the server, so the next unused one
\* is always the first of a fixed order
SessionOrder == <<"s1", "s2", "s3">>
UserOrder == <<"u1", "u2">>
UsedSessions == {conn[v].sid : v \in {x \in WS : conn[x].ready # "new"}}
UsedUsers == {conn[v].uid : v \in {x \in WS : conn[x].ready # "new"}}
NextUnused(order, used, x) ==
    \E j \in 1..Len(order) :
        /\ order[j] = x
        /\ \A i \in 1..(j - 1) : order[i] \in used

\* An admission the environment may attempt with websocket w
Admission(w, s, u) ==
    /\ NextUnused(SessionOrder, UsedSessions, s)
    /\ u = NoUser \/ NextUnused(UserOrder, UsedUsers, u)
    /\ HandleConnection(w, s, u)

\* Admission and client-initiated close only: any sessionId under any userId
NextAdmission ==
    \/ \E w \in WS, s \in Sessions, u \in Users \cup {NoUser} : Admission(w, s, u)
    \/ \E w \in WS : ClientClose(w)

SpecAdmission == Init /\ [][NextAdmission]_vars

\* Websockets of the specifications that run the liveness protocol
MaxLiveWs == 2

\* The connection registry and its liveness protocol, with time abstracted:
\* admissions, closes, heartbeat ticks, pong timers and pongs in any order.
NextRegistry ==
    \/ \E w \in 1..MaxLiveWs, s \in Sessions, u \in Users \cup {NoUser} :
         Admission(w, s, u)
    \/ \E w \in WS : ClientClose(w)
    \/ \E w \in WS : TerminatedClose(w)
    \/ Tick
    \/ \E w \in WS : PongTimeoutFire(w)
    \/ \E w \in WS : Pong(w)

SpecRegistry == Init /\ [][NextRegistry]_vars

\* ------------------------------------------------------------ timed liveness

\* age stops counting one unit past the reaping deadline
AgeCap == PingInterval + PongTimeout + 1

\* One unit of time passes: no timer is due
Advance ==
    /\ tickIn > 0
    /\ \A w \in WS : 0 \notin pongTimers[w]
    /\ tickIn' = tickIn - 1
    /\ pongTimers' = [w \in WS |-> {t - 1 : t \in pongTimers[w]}]
    /\ age' = [w \in WS |->
                 IF conn[w].ready = "open" /\ age[w] < AgeCap
                 THEN age[w] + 1 ELSE age[w]]
    /\ UNCHANGED <<connections, userConnections, conn, wsEvents, srvVars, logVars,
                   llmVars, dropped>>

\* The heartbeat tick when its interval has elapsed
TickDue ==
    /\ tickIn = 0
    /\ Heartbeat
    /\ tickIn' = PingInterval
    /\ UNCHANGED <<age, srvVars, quietVars, llmVars>>

\* A pong timer fires when its timeout has elapsed
PongTimeoutDue(w) ==
    /\ PongCheck(w, 0)
    /\ UNCHANGED <<timeVars, srvVars, quietVars, llmVars>>

\* Websockets, sessionIds and userIds of the timed specification
MaxTimedWs == 2
TimedSessions == {"s1", "s2"}
TimedUsers == {"u1"}

\* The liveness protocol on the clock: timers fire when they are due
NextLive ==
    \/ \E w \in 1..MaxTimedWs, s \in TimedSessions, u \in TimedUsers :
         Admission(w, s, u)
    \/ \E w \in WS : ClientClose(w)
    \/ \E w \in WS : TerminatedClose(w)
    \/ \E w \in WS : Pong(w)
    \/ Advance
    \/ TickDue
    \/ \E w \in WS : PongTimeoutDue(w)

SpecLive == Init /\ [][NextLive]_vars

\* ------------------------------------------------------ batch dispatcher

\* Items appended over a run to a processor used on its own
MaxAppends == 3
LLMSessions == {"s1", "s2"}
\* The sessions the caller sets metadata for
MetaSessions == {"s1"}

\* The caller has items left to append
MayAppend == Sum(appended, Sessions) < MaxAppends

\* Frames a session is sent over a run of the specifications that bound them
MaxBatchFrames == 2

\* sessionIds are opaque to the processor, so a caller's first use of one
\* takes the first of the fixed order that it has not used
Touched == {s \in Sessions : appended[s] > 0 \/ s \in DOMAIN batchMap}
CallerUses(s) == s \in LLMSessions /\ NextUnused(SessionOrder, Touched, s)

\* What a step of the processor leaves alone
notLLM == <<regVars, timeVars, srvVars, logVars, dropped, cfgVars>>

\* A caller hands an audio chunk of session s to processAudioChunk
AudioChunkCall(s) ==
    /\ ~llmOpts.enabled
    /\ CallerUses(s)
    /\ MayAppend
    /\ SetLLM(ProcessAudioChunk(LLM, s))
    /\ UNCHANGED <<notLLM, llmHandler>>

\* A caller hands a transcription result of session s to processTranscription
TranscriptionCall(s) ==
    /\ ~llmOpts.enabled
    /\ CallerUses(s)
    /\ MayAppend
    /\ SetLLM(ProcessTranscription(LLM, s))
    /\ UNCHANGED <<notLLM, llmHandler>>

\* flushSession(sessionId), up to its await
FlushSession(s) ==
    /\ ~llmOpts.enabled
    /\ SetLLM(ProcessBatch(LLM, s))
    /\ UNCHANGED <<notLLM, llmHandler>>

\* flushAll(), up to its await: processBatch is started for every key
FlushAll ==
    /\ ~llmOpts.enabled
    /\ SetLLM(ProcessAll(LLM, DOMAIN batchMap))
    /\ UNCHANGED <<notLLM, llmHandler>>

\* flushAll() by a caller that awaits it, one call at a time
FlushAllAwaited ==
    /\ ~llmOpts.enabled
    /\ flushRun.st # "waiting"
    /\ SetLLM(FlushAllCall(LLM))
    /\ UNCHANGED <<notLLM, llmHandler>>

\* updateMetadata(sessionId, metadata)
UpdateMetadata(s) ==
    /\ ~llmOpts.enabled
    /\ CallerUses(s)
    /\ SetLLM(GetOrCreateBatch(LLM, s))
    /\ UNCHANGED <<notLLM, llmHandler>>

\* setLLMHandler(handler)
SetLLMHandler ==
    /\ ~llmHandler
    /\ llmHandler' = TRUE
    /\ UNCHANGED <<notLLM, batchMap, handlerCalls, requests, llmLog, srvLlm,
                   appended, settled, flushRun, timers>>

\* The time left of the pending timeouts whose callback is processBatch(s)
Due(s) ==
    (IF s \in DOMAIN batchMap THEN {batchMap[s].timer} ELSE {}) \cup timers[s]

\* The timeouts of session s that were due have run
TimerFired(L, s) == [L EXCEPT !.tm[s] = @ \ {0}]

\* The setTimeout callback of getOrCreateBatch, when batchTimeout has elapsed
BatchTimerFire(s) ==
    /\ 0 \in Due(s)
    /\ SetLLM(TimerFired(ProcessBatch(LLM, s), s))
    /\ UNCHANGED <<notLLM, llmHandler>>

\* One unit of time passes for the batch timers: none is due
AdvanceBatch ==
    /\ \E s \in Sessions : Due(s) # {}
    /\ \A s \in Sessions : 0 \notin Due(s)
    /\ batchMap' = [s \in DOMAIN batchMap |->
                      [batchMap[s] EXCEPT !.timer = @ - 1, !.age = @ + 1]]
    /\ timers' = [s \in Sessions |-> {n - 1 : n \in timers[s]}]
    /\ UNCHANGED <<notLLM, llmHandler, handlerCalls, requests, llmLog, srvLlm,
                   appended, settled, flushRun>>

HandlerOutcomes == {"ok", "fail"}

\* LLMProcessor.cleanup(): every batch's timer is cleared and the map is
\* emptied; no request is emitted for what the batches held
LLMCleanup(L) == [L EXCEPT !.bm = <<>>]

\* WebSocketManager.cleanup() for the socket of websocket w: ws.close()
\* starts the closing handshake of a registered connection
WsClose(w) ==
    IF connections[conn[w].sid] = w /\ conn[w].ready = "open"
    THEN [conn[w] EXCEPT !.ready = "closing"]
    ELSE conn[w]

\* AudioStreamServer.cleanup() from the return of flushAll() to its await of
\* transcriptionProvider.cleanup(); L is the processor as flushAll left it
CleanupResume(L) ==
    /\ SetLLM(LLMCleanup(L))
    /\ conn' = [w \in WS |-> WsClose(w)]
    /\ connections' = [s \in Sessions |-> NoConn]
    /\ userConnections' = <<>>
    /\ sessionBuffers' = <<>>
    /\ processingQueue' = <<>>
    /\ cleanupRun' = "closing"
    /\ UNCHANGED <<pongTimers, wsEvents, timeVars, calls, logVars, dropped,
                   llmOpts, provider, client, llmHandler>>

\* AudioStreamServer.cleanup() is called on a server with LLM processing:
\* flushAll() is awaited; when it started no handler invocation, cleanup
\* goes on in the same turn
CleanupCall ==
    /\ llmOpts.enabled
    /\ cleanupRun = "none"
    /\ LET F == FlushAllCall(LLM)
       IN IF F.fa.st = "returned"
          THEN CleanupResume(F)
          ELSE /\ SetLLM(F)
               /\ cleanupRun' = "flushing"
               /\ UNCHANGED <<regVars, timeVars, srvVars, logVars, dropped,
                              llmOpts, provider, client, llmHandler>>

\* The promise of transcriptionProvider.cleanup() settles: cleanup() returns
CleanupReturn ==
    /\ cleanupRun = "closing"
    /\ cleanupRun' = "done"
    /\ UNCHANGED <<regVars, timeVars, srvVars, logVars, dropped, llmOpts,
                   provider, client, llmHandler, batchMap, handlerCalls, requests,
                   llmLog, srvLlm, appended, settled, flushRun, timers>>

\* The promise of handler invocation c settles: the rest of processBatch,
\* then what awaits the flushAll() it belongs to
HandlerSettle(c, o) ==
    /\ c \in handlerCalls
    /\ LET R == Resume(IF o = "ok" THEN HandlerReturned(LLM, c)
                       ELSE HandlerFailed(LLM, c))
       IN IF cleanupRun = "flushing" /\ R.fa.st = "returned"
          THEN CleanupResume(R)
          ELSE /\ SetLLM(R)
               /\ UNCHANGED <<notLLM, llmHandler>>

\* The options the AudioStreamServer constructs its processor with
ServerLLM ==
    [enabled |-> TRUE, includeAudio |-> TRUE, includeTranscript |-> TRUE,
     maxBatchSize |-> DefaultMaxBatchSize]

\* The options of a processor constructed on its own
OwnLLM ==
    {[enabled |-> FALSE, includeAudio |-> a, includeTranscript |-> r,
      maxBatchSize |-> MaxBatchSize] : a, r \in BOOLEAN}

InitBatch == InitServer /\ llmOpts \in OwnLLM \cup {ServerLLM}

\* The batch dispatcher: a processor driven by its callers, or the one of a
\* server with LLM processing enabled, driven by one session's traffic
NextBatch ==
    \/ \E s \in LLMSessions : AudioChunkCall(s)
    \/ \E s \in LLMSessions : TranscriptionCall(s)
    \/ \E s \in LLMSessions : FlushSession(s)
    \/ FlushAll
    \/ \E s \in MetaSessions : UpdateMetadata(s)
    \/ SetLLMHandler
    \/ \E s \in Sessions : BatchTimerFire(s)
    \/ AdvanceBatch
    \/ \E c \in handlerCalls, o \in HandlerOutcomes : HandlerSettle(c, o)
    \/ /\ llmOpts.enabled
       /\ \/ \E s \in PipeSessions, u \in PipeUsers : HandleConnection(1, s, u)
          \/ \E w \in WS : ClientClose(w)
          \/ \E w \in WS : Received(conn[w].sid) < MaxBatchFrames /\ HandleAudioData(w)
          \/ \E c \in calls, o \in Outcomes : CallComplete(c, o)

SpecBatch == InitBatch /\ [][NextBatch]_vars

\* A processor constructed on its own that batches both kinds of item
OwnBoth ==
    [enabled |-> FALSE, includeAudio |-> TRUE, includeTranscript |-> TRUE,
     maxBatchSize |-> MaxBatchSize]

InitFlush == InitServer /\ llmOpts = OwnBoth

\* A processor on its own whose caller flushes with flushAll and awaits it;
\* no batchTimeout elapses in the run
NextFlush ==
    \/ \E s \in LLMSessions : AudioChunkCall(s)
    \/ \E s \in LLMSessions : TranscriptionCall(s)
    \/ \E s \in MetaSessions : UpdateMetadata(s)
    \/ SetLLMHandler
    \/ FlushAllAwaited
    \/ \E c \in handlerCalls, o \in HandlerOutcomes : HandlerSettle(c, o)

SpecFlush == InitFlush /\ [][NextFlush]_vars

\* ------------------------------------------------------- session teardown

\* Websockets handed to handleConnection for the one sessionId
SessWs == {1, 2}

\* One sessionId: admitted, fed audio, stopped, closed by its client or
\* given up by the liveness protocol, and admitted again on a new websocket;
\* every transcription call returns a transcript
NextSession ==
    \/ \E w \in SessWs, s \in PipeSessions, u \in PipeUsers :
         HandleConnection(w, s, u)
    \/ \E w \in WS : ClientClose(w)
    \/ \E w \in WS : TerminatedClose(w)
    \/ Tick
    \/ \E w \in WS : PongTimeoutFire(w)
    \/ \E w \in WS : HandleAudioData(w)
    \/ \E w \in WS : HandleControlMessage(w, "stop-recording")
    \/ \E c \in calls : CallComplete(c, "text")

SpecSession == Init /\ [][NextSession]_vars

InitReap == InitServer /\ llmOpts = ServerLLM

\* One session of a server with LLM processing, on one websocket: audio,
\* transcription results and batches, ended by its client or by the
\* liveness protocol
NextReap ==
    \/ \E s \in PipeSessions, u \in PipeUsers : HandleConnection(1, s, u)
    \/ \E w \in WS : ClientClose(w)
    \/ \E w \in WS : TerminatedClose(w)
    \/ Tick
    \/ \E w \in WS : PongTimeoutFire(w)
    \/ \E w \in WS : Received(conn[w].sid) < MaxBatchFrames /\ HandleAudioData(w)
    \/ \E c \in calls, o \in Outcomes : CallComplete(c, o)
    \/ \E s \in Sessions : BatchTimerFire(s)
    \/ AdvanceBatch

SpecReap == InitReap /\ [][NextReap]_vars

\* ----------------------------------------------------------------- shutdown

\* One session of a server with LLM processing and a handler, on one
\* websocket, until and after cleanup() is called: audio, transcription
\* results, handler results, close events; no batchTimeout elapses
NextCleanup ==
    \/ \E s \in PipeSessions, u \in PipeUsers : HandleConnection(1, s, u)
    \/ \E w \in WS : ClientClose(w)
    \/ \E w \in WS : TerminatedClose(w)
    \/ \E w \in WS : Received(conn[w].sid) < MaxBatchFrames /\ HandleAudioData(w)
    \/ \E c \in calls, o \in Outcomes : CallComplete(c, o)
    \/ SetLLMHandler
    \/ \E c \in handlerCalls, o \in HandlerOutcomes : HandlerSettle(c, o)
    \/ CleanupCall
    \/ CleanupReturn

SpecCleanup == InitReap /\ [][NextCleanup]_vars

\* ---------------------------------------------------------------- start-up

\* How the promise of transcriptionProvider.initialize() may settle.  The
\* constructor drops the promise of initialize(), so a failure is an
\* unhandled rejection: the process goes on or is ended by the runtime.
InitOutcomes == {"ready", "failed", "crashed"}

\* The promise of transcriptionProvider.initialize() settles
InitializeSettle(o) ==
    /\ provider = "initializing"
    /\ provider' = o
    /\ UNCHANGED <<regVars, timeVars, srvVars, logVars, dropped, llmOpts,
                   cleanupRun, client, llmHandler, batchMap, handlerCalls, requests,
                   llmLog, srvLlm, appended, settled, flushRun, timers>>

\* The server as the constructor returns it, without LLM processing
InitStart ==
    /\ Constructed
    /\ provider = "initializing"
    /\ llmOpts = NoLLM
    /\ client = NewClient(NoReconnect)

\* One session's traffic from the return of the constructor on
NextStart ==
    \/ \E o \in InitOutcomes : InitializeSettle(o)
    \/ /\ provider # "crashed"
       /\ \/ \E s \in PipeSessions, u \in PipeUsers : HandleConnection(1, s, u)
          \/ \E w \in WS : ClientClose(w)
          \/ \E w \in WS : HandleAudioData(w)
          \/ \E c \in calls, o \in Outcomes : CallComplete(c, o)

SpecStart == InitStart /\ [][NextStart]_vars

\* ------------------------------------------------------------ wire format

\* One session's websocket traffic, message by message
NextWire ==
    \/ \E s \in PipeSessions, u \in PipeUsers : HandleConnection(1, s, u)
    \/ \E w \in WS : ClientClose(w)
    \/ \E w \in WS, d \in Data :
         /\ d.string \/ IsJSON(d) \/ Received(conn[w].sid) < MaxBatchFrames
         /\ OnMessage(w, d)
    \/ \E c \in calls, o \in Outcomes : CallComplete(c, o)

SpecWire == Init /\ [][NextWire]_vars

\* ------------------------------------------------------------ two sessions

\* The binary frames and the control messages the server was sent, over all
\* sessions
ReceivedByAll == Sum([s \in Sessions |-> Received(s)], Sessions)
HandledForAll == Sum([s \in Sessions |-> Handled(s)], Sessions)

\* The control messages and the call results of the two-session runs
PairControl == {"pause-recording", "stop-recording"}
PairOutcomes == {"text", "fail"}

\* Two sessions of one user on a server with LLM processing, each on its
\* own websocket: frames, control messages, call results, closes and batch
\* timers.  The server is sent as many frames, and as many control
\* messages, as there are sessions, shared between them in any way.
NextPair ==
    \/ \E w \in SessWs, s \in TimedSessions, u \in TimedUsers : Admission(w, s, u)
    \/ \E w \in WS : ClientClose(w)
    \/ \E w \in WS :
         ReceivedByAll < Cardinality(TimedSessions) /\ HandleAudioData(w)
    \/ \E w \in WS, type \in PairControl :
         HandledForAll < Cardinality(TimedSessions) /\ HandleControlMessage(w, type)
    \/ \E c \in calls, o \in PairOutcomes : CallComplete(c, o)
    \/ \E s \in Sessions : BatchTimerFire(s)
    \/ AdvanceBatch

SpecPair == InitReap /\ [][NextPair]_vars

\* ------------------------------------------------------ recording control

\* One session of a server with LLM processing, on one websocket: audio,
\* control messages and transcription results; no batchTimeout elapses
NextControl ==
    \/ \E s \in PipeSessions, u \in PipeUsers : HandleConnection(1, s, u)
    \/ \E w \in WS : ClientClose(w)
    \/ \E w \in WS : Received(conn[w].sid) < MaxBatchFrames /\ HandleAudioData(w)
    \/ \E w \in WS, type \in ControlTypes : HandleControlMessage(w, type)
    \/ \E c \in calls, o \in Outcomes : CallComplete(c, o)

SpecControl == InitReap /\ [][NextControl]_vars

\* ------------------------------------------------------------------ claims

\* The processAudio calls outstanding for session s
Outstanding(s) == {c \in calls : c.sid = s}

\* sessionId s is registered and its session is not paused
LiveUnpaused(s) == connections[s] # NoConn /\ ~conn[connections[s]].isPaused

\* The frames buffered for session s
Buffered(s) == IF s \in DOMAIN sessionBuffers THEN sessionBuffers[s] ELSE <<>>

\* The concatenation of a sequence of payloads
RECURSIVE Flatten(_)
Flatten(ps) == IF ps = <<>> THEN <<>> ELSE Head(ps) \o Flatten(Tail(ps))

\* C1: for every session, at most one processAudio call is outstanding in
\* every reachable state.
C1_SingleFlight == \A s \in Sessions : Cardinality(Outstanding(s)) <= 1

\* C2: when a call of a live, unpaused session settles and frames were
\* buffered meanwhile, the same step starts a new call carrying exactly
\* those frames.
C2_DrainOnCompletion ==
    [][\A s \in Sessions :
         \A c \in Outstanding(s) :
            (/\ \A d \in calls' : d.sid = s => d.id # c.id
             /\ LiveUnpaused(s)
             /\ Buffered(s) # <<>>)
            => \E d \in calls' :
                  /\ d.sid = s
                  /\ d.id > Len(issued[s])
                  /\ issued'[s][d.id] = Buffered(s)]_vars

\* C3: a recording-stopped acknowledgement is sent only in a state where the
\* session's buffer is empty and no processAudio call is outstanding for it.
C3_DrainComplete ==
    \A s \in Sessions :
        stopAck[s] # NoAck => stopAck[s].buffered = 0 /\ stopAck[s].outstanding = 0

\* C4: three frames that all arrive before the first call settles, with no
\* stop-recording and no further input, end in exactly two calls, the first
\* followed by one that carries the frames buffered during it.
C4_BurstOfThree ==
    \A s \in Sessions :
        (/\ hist[s].burst = 3
         /\ accepted[s] = 3
         /\ ~hist[s].stops
         /\ LiveUnpaused(s)
         /\ conn[connections[s]].isRecording
         /\ Outstanding(s) = {})
        => /\ Len(issued[s]) = 2
           /\ Flatten(issued[s]) = <<1, 2, 3>>

\* C5: the payloads of a session's calls, concatenated in issue order, are a
\* prefix of its accepted frames in arrival order, and results are delivered
\* in the order their calls were issued.
C5_OrderedDispatch ==
    \A s \in Sessions :
        LET flat == Flatten(issued[s])
            del == transcribed[s]
        IN /\ Len(flat) <= accepted[s]
           /\ \A i \in 1..Len(flat) : flat[i] = i
           /\ \A i, j \in 1..Len(del) : i < j => del[i] < del[j]

\* C10: every close of an admitted websocket emits one 'disconnection' event
\* for its sessionId and deletes the session's buffer and lock entries.
C10_DisconnectionOnClose ==
    \A s \in Sessions :
        /\ events[s].disconnection = closes[s]
        /\ (closes[s] > 0 /\ connections[s] = NoConn)
           => s \notin DOMAIN sessionBuffers /\ s \notin DOMAIN processingQueue

\* The sessionIds registered under userId u in the primary index
RegisteredOf(u) ==
    {s \in Sessions : connections[s] # NoConn /\ conn[connections[s]].uid = u}

\* C6: an admission attempt for a userId that already has
\* MaxConnectionsPerUser registered sessions is rejected with code 1008 and
\* changes neither index, creates no buffer and emits no event; no user ever
\* has more than MaxConnectionsPerUser registered sessions.
C6_AdmissionCap ==
    /\ [](\A u \in Users :
            /\ Cardinality(RegisteredOf(u)) <= MaxConnectionsPerUser
            /\ u \in DOMAIN userConnections
               => Cardinality(userConnections[u]) <= MaxConnectionsPerUser)
    /\ [][\A w \in WS :
            (/\ conn[w].ready = "new"
             /\ conn'[w].ready # "new"
             /\ conn'[w].uid \in Users
             /\ Cardinality(RegisteredOf(conn'[w].uid)) >= MaxConnectionsPerUser)
            => /\ conn'[w].ready = "closed"
               /\ conn'[w].code = RejectCode
               /\ UNCHANGED <<connections, userConnections, wsEvents,
                              sessionBuffers, processingQueue, events>>]_vars

\* C6 witness: a websocket was rejected for a user holding the full cap
C6_Witness ==
    \E w \in WS :
        /\ conn[w].code = RejectCode
        /\ Cardinality(RegisteredOf(conn[w].uid)) = MaxConnectionsPerUser

\* No sessionId was admitted while it was registered
NoOverlap ==
    \A s \in Sessions :
        wsEvents[s].added =
            wsEvents[s].removed + (IF connections[s] # NoConn THEN 1 ELSE 0)

\* C7: when no sessionId was admitted while registered,
\* getConnectionsByUser(u) holds a session exactly when getConnection gives a
\* connection of user u for it, and a removed sessionId is in no index.
C7_IndexConsistency ==
    NoOverlap =>
        /\ \A u \in Users, s \in Sessions :
              s \in GetConnectionsByUser(u)
              <=> (GetConnection(s) # NoConn /\ conn[GetConnection(s)].uid = u)
        /\ \A s \in Sessions :
              GetConnection(s) = NoConn
              => \A u \in DOMAIN userConnections : s \notin userConnections[u]

\* C7 witness: a user had two sessions, one was removed, the other stays
C7_Witness ==
    /\ NoOverlap
    /\ \E u \in Users, s, r \in Sessions :
          /\ s # r
          /\ wsEvents[s].removed = 1 /\ connections[s] = NoConn
          /\ \E w \in WS : conn[w].sid = s /\ conn[w].uid = u /\ conn[w].code = 0
                           /\ conn[w].ready = "closed"
          /\ r \in GetConnectionsByUser(u)

\* C8: removing a sessionId twice leaves the indices and the events emitted
\* as removing it once; removing a sessionId that is not registered changes
\* nothing; so no admission is ever answered by two connection-removed events.
C8_RemoveIdempotent ==
    /\ \A s \in Sessions :
          LET once == RemoveConnection(Registry, s, UidOf)
          IN /\ RemoveConnection(once, s, UidOf) = once
             /\ connections[s] = NoConn => once = Registry
    /\ \A s \in Sessions : wsEvents[s].removed <= wsEvents[s].added

\* C8 witness: a connection the liveness protocol removed has had its close
\* event handled as well, and its sessionId saw one connection-removed
C8_Witness ==
    \E w \in WS :
        /\ conn[w].terminated /\ conn[w].ready = "closed"
        /\ wsEvents[conn[w].sid].added = 1
        /\ wsEvents[conn[w].sid].removed = 1

\* C9: once PingInterval + PongTimeout have passed since a connection's
\* admission (or its latest pong) without an answer, it has been terminated
\* and removed from both registry indices.
C9_LivenessReaping ==
    \A w \in WS :
        (conn[w].ready # "new" /\ conn[w].code = 0
         /\ age[w] > PingInterval + PongTimeout)
        => /\ conn[w].ready # "open"
           /\ connections[conn[w].sid] # w
           /\ connections[conn[w].sid] = NoConn
              => \A u \in DOMAIN userConnections :
                    conn[w].sid \notin userConnections[u]

\* ---------------------------------------------------- batch dispatcher claims

\* The items of a batch or of a request, audio before transcripts
Items(b) == b.audio \o b.transcripts

\* The number of items in session s's active batch
BatchCount(s) == IF s \in DOMAIN batchMap THEN Len(Items(batchMap[s])) ELSE 0

\* C14: after every append the active batch holds fewer than maxBatchSize
\* items, and the append that reaches maxBatchSize emits the batch's request
\* in the same call and leaves no batch, so no timer, for the session.
C14_SizeFlush ==
    /\ [](\A s \in DOMAIN batchMap : BatchCount(s) < llmOpts.maxBatchSize)
    /\ [][\A s \in Sessions :
            (appended'[s] = appended[s] + 1
             /\ BatchCount(s) + 1 >= llmOpts.maxBatchSize)
            => /\ s \notin DOMAIN batchMap'
               /\ Len(requests'[s]) = Len(requests[s]) + 1
               /\ Len(Items(requests'[s][Len(requests'[s])])) = BatchCount(s) + 1]_vars

\* C14 witness: a request that was flushed by size
C14_Witness ==
    \E s \in Sessions : \E i \in 1..Len(requests[s]) :
        /\ Len(Items(requests[s][i])) = llmOpts.maxBatchSize
        /\ s \notin DOMAIN batchMap

\* C15: a batch's timer is armed once, at the batch's creation, and counts
\* down from batchTimeout whatever is appended, so no batch outlives
\* batchTimeout.
C15_TimerArmedOnce ==
    \A s \in DOMAIN batchMap :
        /\ batchMap[s].armed = 1
        /\ batchMap[s].timer + batchMap[s].age = BatchTimeout

\* C15 witness: a batch that grew after its creation is due by its timer
C15_Witness ==
    \E s \in DOMAIN batchMap :
        /\ BatchCount(s) >= 2
        /\ batchMap[s].timer = 0
        /\ batchMap[s].age = BatchTimeout

\* A sequence of item numbers is strictly ascending
Ascending(q) == \A i, j \in 1..Len(q) : i < j => q[i] < q[j]

\* The items of the first k requests of session s
RECURSIVE Emitted(_, _)
Emitted(s, k) ==
    IF k = 0 THEN <<>> ELSE Emitted(s, k - 1) \o Items(requests[s][k])

\* The set of the elements of a sequence
Range(q) == {q[i] : i \in 1..Len(q)}

Handling(s) == {c \in handlerCalls : c.sid = s}

\* C17: the handler is invoked at most once per emitted request, and no two
\* invocations for one session are outstanding at once.
C17_HandlerExclusive ==
    \A s \in Sessions :
        /\ Cardinality(Handling(s)) + settled[s].ok + settled[s].fail
              <= Len(requests[s])
        /\ Cardinality(Handling(s)) <= 1

\* C18: each handler failure emits one llm-error for its session and nothing
\* is thrown; the failure step leaves the batches and the requests as they
\* are and starts no handler invocation.
C18_HandlerFailureContained ==
    /\ [](\A s \in Sessions :
            /\ llmLog[s].error = settled[s].fail
            /\ llmLog[s].response = settled[s].ok
            /\ llmLog[s].thrown = 0)
    /\ [][\A s \in Sessions :
            settled'[s].fail > settled[s].fail
            => /\ batchMap' = batchMap
               /\ requests' = requests
               /\ handlerCalls' \subseteq handlerCalls
               /\ llmHandler' = llmHandler]_vars

\* C18 witness: after a failure, a later batch of the session was handled
\* and a batch of another session was flushed
C18_Witness ==
    \E s, r \in Sessions :
        /\ s # r
        /\ settled[s].okAfterFail
        /\ llmLog[s].error = 1
        /\ Len(requests[r]) > 0

\* C19: on a server with LLM processing, every handler response and every
\* handler failure is emitted as an event of the server.
C19_HandlerEventsOnServer ==
    llmOpts.enabled =>
        \A s \in Sessions :
            /\ srvLlm[s].response = settled[s].ok
            /\ srvLlm[s].error = settled[s].fail

\* C20: with includeAudio off processAudioChunk changes nothing, so no batch
\* or request holds audio; likewise processTranscription with
\* includeTranscript off.
C20_DisabledKindsNoOp ==
    /\ ~llmOpts.includeAudio
       => /\ \A s \in Sessions : ProcessAudioChunk(LLM, s) = LLM
          /\ \A s \in DOMAIN batchMap : batchMap[s].audio = <<>>
          /\ \A s \in Sessions : \A i \in 1..Len(requests[s]) :
                requests[s][i].audio = <<>>
    /\ ~llmOpts.includeTranscript
       => /\ \A s \in Sessions : ProcessTranscription(LLM, s) = LLM
          /\ \A s \in DOMAIN batchMap : batchMap[s].transcripts = <<>>
          /\ \A s \in Sessions : \A i \in 1..Len(requests[s]) :
                requests[s][i].transcripts = <<>>

\* C20 witness: with includeAudio off, batches were made of transcripts
C20_Witness ==
    /\ ~llmOpts.includeAudio
    /\ \E s \in DOMAIN batchMap : batchMap[s].transcripts # <<>>
    /\ \E s \in Sessions : Len(requests[s]) > 0

\* C12: the close of a session's websocket flushes the session's non-empty
\* batch in that step: its request is emitted and no batch, so no timer, is
\* left for the session.
C12_FlushOnDisconnect ==
    [][\A s \in Sessions :
         (closes'[s] > closes[s] /\ BatchCount(s) > 0)
         => /\ s \notin DOMAIN batchMap'
            /\ Len(requests'[s]) = Len(requests[s]) + 1]_vars

\* C21: the flushAll step removes every batch, emits the request of each
\* non-empty one and, with a handler registered, starts all their handler
\* invocations in that one step; when flushAll has returned, none of the
\* invocations it started is outstanding.
C21_FlushAllAwaitsAll ==
    /\ [](flushRun.st = "returned" => flushRun.waits \cap handlerCalls = {})
    /\ [][FlushAllAwaited
          => /\ batchMap' = <<>>
             /\ \A s \in DOMAIN batchMap :
                   IF Items(batchMap[s]) = <<>>
                   THEN requests'[s] = requests[s]
                   ELSE /\ requests'[s] =
                             Append(requests[s],
                                    [audio |-> batchMap[s].audio,
                                     transcripts |-> batchMap[s].transcripts])
                        /\ llmHandler
                           => [sid |-> s, id |-> Len(requests'[s])] \in handlerCalls'
             /\ \A s \in Sessions \ DOMAIN batchMap : requests'[s] = requests[s]]_vars

\* C21 witness: a flushAll that flushed the batches of two sessions has
\* returned, after one handler invocation failed and the other returned
C21_Witness ==
    /\ flushRun.st = "returned"
    /\ \E c, d \in flushRun.waits :
          /\ c.sid # d.sid
          /\ settled[c.sid].fail = 1
          /\ settled[d.sid].ok = 1

\* ------------------------------------------------------ teardown claims

\* C11: a liveness termination emits no error event, and the termination of
\* a session followed by its websocket's close event leaves the registry,
\* the buffers, the locks, the batches and the events emitted as a close by
\* the client does.
C11_ReapAsClose ==
    /\ [](\A s \in Sessions :
            (connections[s] # NoConn /\ conn[connections[s]].ready = "open")
            => LET X == Reaped(Registry, events, s)
               IN CloseEffect(X.R, sessionBuffers, processingQueue, X.e, LLM, s)
                  = CloseEffect(Registry, sessionBuffers, processingQueue, events,
                                LLM, s))
    /\ [][(\E w \in WS : conn'[w].terminated /\ ~conn[w].terminated)
          => \A s \in Sessions : events'[s].error = events[s].error]_vars

\* C11 witness: a session with buffered audio, a lock and a batch was given
\* up by the liveness protocol and its websocket's close event has followed
C11_Witness ==
    \E w \in WS :
        /\ conn[w].terminated /\ conn[w].ready = "closed"
        /\ dropped[conn[w].sid] # {}
        /\ conn[w].sid \in DOMAIN processingQueue
        /\ conn[w].sid \in DOMAIN batchMap

\* C13: no processAudio call carries a frame that a disconnection of its
\* session found buffered, and a disconnection leaves the outstanding calls
\* running.
C13_NoDispatchAfterDisconnect ==
    /\ [](\A s \in Sessions : Range(Flatten(issued[s])) \cap dropped[s] = {})
    /\ [][(\E s \in Sessions :
              \/ closes'[s] > closes[s]
              \/ wsEvents'[s].removed > wsEvents[s].removed)
          => calls' = calls]_vars

\* C13 witness: frame 2 was buffered when the session disconnected; the call
\* outstanding then has delivered, and the session, admitted again, had its
\* next frame dispatched alone
C13_Witness ==
    \E s \in Sessions :
        /\ dropped[s] = {2}
        /\ issued[s] = << <<1>>, <<3>> >>
        /\ transcribed[s] = <<1>>

\* ------------------------------------------------------- pipeline claims

\* C22: a call that returns an empty transcript sends no 'transcription'
\* message, emits no 'transcription' event and adds nothing to the session's
\* batch; messages and events count the non-empty results only.
C22_EmptySuppressed ==
    /\ [](\A s \in Sessions :
            /\ events[s].transcription = hist[s].results["text"]
            /\ sent[s][TranscriptionMsg] <= hist[s].results["text"])
    /\ [][\A s \in Sessions :
            hist'[s].results["empty"] > hist[s].results["empty"]
            => /\ sent'[s][TranscriptionMsg] = sent[s][TranscriptionMsg]
               /\ events'[s].transcription = events[s].transcription
               /\ batchMap' = batchMap
               /\ requests' = requests
               /\ appended' = appended]_vars

\* C22 witness: of two calls of a session one returned an empty transcript;
\* the other's transcript was sent and is the one transcript of the batch
C22_Witness ==
    \E s \in DOMAIN batchMap :
        /\ hist[s].results["empty"] = 1
        /\ hist[s].results["text"] = 1
        /\ sent[s][TranscriptionMsg] = 1
        /\ Len(batchMap[s].transcripts) = 1

\* C23: the step in which a session's call fails emits exactly one error
\* event for the session, leaves its connection registered and open, and
\* leaves the session's lock free, so that the next frame accepted is
\* dispatched in a fresh call.
C23_FailureContained ==
    [][\A s \in Sessions :
         hist'[s].results["fail"] > hist[s].results["fail"]
         => /\ events'[s].error = events[s].error + 1
            /\ connections' = connections
            /\ conn' = conn
            /\ ~Locked(processingQueue', s)]_vars

\* Session s is registered and its connection is paused
Paused(s) == connections[s] # NoConn /\ conn[connections[s]].isPaused

\* The audio items handed to the processor for session s
AudioItems(s) ==
    (IF s \in DOMAIN batchMap THEN Range(batchMap[s].audio) ELSE {})
    \cup UNION {Range(requests[s][i].audio) : i \in 1..Len(requests[s])}

\* The calls that handleAudioData has started for session s
FrameCalls(s) == {c.id : c \in {d \in calls : d.sid = s /\ d.kind = "frame"}}

\* C24: no step taken while a session is paused grows its buffer, emits an
\* audio-chunk event for it, hands audio of it to the batch processor or
\* starts a call from handleAudioData; a frame that arrives is only counted
\* as skipped.
C24_PausedDropsFrames ==
    [][\A s \in Sessions :
         Paused(s)
         => /\ Len(Buffered(s)') <= Len(Buffered(s))
            /\ events'[s].audioChunk = events[s].audioChunk
            /\ accepted'[s] = accepted[s]
            /\ AudioItems(s)' = AudioItems(s)
            /\ FrameCalls(s)' \subseteq FrameCalls(s)
            /\ hist'[s].skipped > hist[s].skipped
               => UNCHANGED <<sessionBuffers, processingQueue, calls, events,
                              llmVars, regVars>>]_vars

\* C24 witness: a session that had one frame dispatched skipped the next
\* one while paused
C24_Witness ==
    \E s \in Sessions :
        /\ Paused(s)
        /\ hist[s].skipped = 1
        /\ accepted[s] = 1
        /\ AudioItems(s) = {1}
        /\ Buffered(s) = <<>>

\* The recording-stopped messages sent to session s
StopsAcked(s) == sent[s][AckOf("stop-recording")]

\* C25: when a stop-recording has been processed and acknowledged the
\* session is neither recording nor paused, and the start-recording that
\* follows leaves it recording and not paused, so that its frames are
\* buffered and dispatched.
C25_StopReachesIdle ==
    /\ [][\A s \in Sessions :
            (StopsAcked(s)' > StopsAcked(s) /\ connections'[s] # NoConn)
            => /\ ~conn'[connections'[s]].isRecording
               /\ ~conn'[connections'[s]].isPaused]_vars
    /\ [][\A s \in Sessions :
            (/\ hist'[s].ctl["start-recording"] > hist[s].ctl["start-recording"]
             /\ StopsAcked(s) > 0)
            => /\ conn'[connections'[s]].isRecording
               /\ ~Paused(s)']_vars

\* The stop-recording messages handled for session s
StopsHandled(s) == hist[s].ctl["stop-recording"]

\* C26: a stop-recording is acknowledged in the step that handles it only
\* when no call of the session is outstanding at that time (otherwise the
\* acknowledgement waits for the call); and once no call is outstanding on a
\* session that is registered and was never closed, every stop-recording
\* handled has been acknowledged, whatever the buffer held.
C26_StopAcknowledged ==
    /\ [][\A s \in Sessions :
            (StopsHandled(s)' > StopsHandled(s) /\ StopsAcked(s)' > StopsAcked(s))
            => Outstanding(s) = {}]_vars
    /\ [](\A s \in Sessions :
            (Outstanding(s) = {} /\ connections[s] # NoConn /\ closes[s] = 0)
            => StopsAcked(s) = StopsHandled(s))

\* The control messages that are answered in the step that handles them
PromptTypes == {"ping", "start-recording", "pause-recording", "resume-recording"}

\* C27: a control message handled for a registered session with an open
\* channel is answered with one message of its acknowledgement type and no
\* other (a stop-recording once its drain is over, so never more
\* acknowledgements than stops), and every acknowledgement sent carries a
\* timestamp.
C27_AcknowledgedWithTimestamp ==
    /\ [](\A s \in Sessions : \A m \in Messages \ {TranscriptionMsg} :
            sent[s][m] > 0 => m.timestamp)
    /\ [](\A s \in Sessions : StopsAcked(s) <= StopsHandled(s))
    /\ [][\A s \in Sessions : \A x \in PromptTypes :
            (hist'[s].ctl[x] > hist[s].ctl[x] /\ CanSend(connections, conn, s))
            => sent'[s] = [sent[s] EXCEPT ![AckOf(x)] = @ + 1]]_vars

\* C28: a connection is admitted, and a processAudio call is issued, only
\* when transcriptionProvider.initialize() has completed successfully; so
\* never before it completes and never after it failed.
C28_InitializedBeforeService ==
    [][\A s \in Sessions :
         (\/ events'[s].connection > events[s].connection
          \/ Len(issued'[s]) > Len(issued[s]))
         => provider = "ready"]_vars

\* Messages that are not an object with a type field
Unstructured == {d \in Data : d.json # "typed"}

\* C29: a message that is not structured control data is handled exactly as
\* handleAudioData handles a frame (pushed to the buffer of a registered,
\* unpaused session), and no error event comes of it.
C29_UnstructuredIsAudio ==
    [][\A w \in WS : \A d \in Unstructured :
         OnMessage(w, d)
         => /\ HandleAudioData(w)
            /\ events'[conn[w].sid].error = events[conn[w].sid].error]_vars

\* What the server holds for session r: its buffer, its lock, the flags of
\* its connection, its batch and its entries in the two registry indices
SessionState(r) ==
    [buffer |-> IF r \in DOMAIN sessionBuffers THEN <<sessionBuffers[r]>> ELSE <<>>,
     lock |-> IF r \in DOMAIN processingQueue THEN <<processingQueue[r]>> ELSE <<>>,
     flags |-> IF connections[r] = NoConn THEN <<>>
               ELSE <<conn[connections[r]].isRecording,
                      conn[connections[r]].isPaused>>,
     batch |-> IF r \in DOMAIN batchMap THEN <<batchMap[r]>> ELSE <<>>,
     primary |-> connections[r],
     byUser |-> {u \in DOMAIN userConnections : r \in userConnections[u]}]

\* A step leaves every session but s as it was
OthersKept(s) == \A r \in Sessions \ {s} : SessionState(r)' = SessionState(r)

\* C30: a frame, a control message or a close on a session's websocket, the
\* settlement of one of its calls and the timer flush of its batch leave the
\* buffer, lock, flags, batch and registry entries of every other session
\* unchanged.
C30_OtherSessionsKept ==
    /\ [][\A w \in WS :
            (\/ HandleAudioData(w)
             \/ \E type \in PairControl : HandleControlMessage(w, type)
             \/ ClientClose(w))
            => OthersKept(conn[w].sid)]_vars
    /\ [][\A c \in calls :
            (\E o \in PairOutcomes : CallComplete(c, o)) => OthersKept(c.sid)]_vars
    /\ [][\A s \in Sessions : BatchTimerFire(s) => OthersKept(s)]_vars

\* C30 witness: one session had a call fail and its websocket closed while
\* the other, paused, holds a lock and a batch
C30_Witness ==
    \E s, r \in Sessions :
        /\ s # r
        /\ closes[s] = 1
        /\ hist[s].results["fail"] = 1
        /\ Paused(r)
        /\ Locked(processingQueue, r)
        /\ r \in DOMAIN batchMap

\* ------------------------------------------------------ concurrency claims

\* C31: whenever a processAudio call is outstanding for a registered
\* session, whether handleAudioData or stop-recording started it, the
\* session's processingQueue entry is held.
C31_LockHeldDuringCall ==
    \A s \in Sessions :
        (connections[s] # NoConn /\ Outstanding(s) # {})
        => Locked(processingQueue, s)

\* ------------------------------------------------------ wire format claims

\* Objects whose type is none of the five known ones, or that have no type
UnknownTyped == {d \in Data : d.json \in {"object", "typed"} /\ d.type = "unknown"}

\* C32: a message that parses as an object whose type is not one of the five
\* known types leaves the connection flags and readyState, the registry, the
\* buffer, the lock, the calls and the batches as they are, sends no message
\* and emits no event.
C32_UnknownTypeIgnored ==
    [][\A w \in WS : \A d \in UnknownTyped :
         OnMessage(w, d)
         => UNCHANGED <<regVars, srvVars, events, sent, accepted, issued, stopAck,
                        closes, dropped, llmVars>>]_vars

\* C32 witness: a recording session with an open websocket, a call
\* outstanding and a frame buffered has been sent a message of unknown type
C32_Witness ==
    \E s \in Sessions :
        /\ hist[s].ctl["unknown"] = 1
        /\ CanSend(connections, conn, s)
        /\ conn[connections[s]].isRecording
        /\ Locked(processingQueue, s)
        /\ Buffered(s) # <<>>
        /\ events[s].error = 0

\* ------------------------------------------------------ re-admission claims

\* C33: whatever was admitted or removed, a sessionId is in the session set
\* of a user only if it is registered in the primary index with a connection
\* of that user.
C33_ReadmissionConsistent ==
    \A u \in DOMAIN userConnections : \A s \in userConnections[u] :
        /\ connections[s] # NoConn
        /\ conn[connections[s]].uid = u

\* Websocket w is the one registered for its sessionId
Current(w) == conn[w].ready # "new" /\ connections[conn[w].sid] = w

\* C34: the close event and the pong-timeout check of another websocket of
\* the same sessionId leave the registered connection registered and its
\* socket as it is, and the settlement of a call releases no lock but the
\* one taken for that call.
C34_StaleEventsHarmless ==
    /\ [][\A v \in WS :
            (ClientClose(v) \/ TerminatedClose(v) \/ PongTimeoutFire(v))
            => \A w \in WS \ {v} :
                  (Current(w) /\ conn[v].sid = conn[w].sid)
                  => /\ connections'[conn[w].sid] = w
                     /\ conn'[w].ready = conn[w].ready
                     /\ conn'[w].terminated = conn[w].terminated]_vars
    /\ [][\A c \in calls :
            (/\ CallComplete(c, "text")
             /\ Locked(processingQueue, c.sid)
             /\ processingQueue[c.sid] # c.id)
            => Locked(processingQueue', c.sid)]_vars

\* ------------------------------------------------------ batch timer claims

\* C35: no timeout is pending for a batch that has been flushed; a timer
\* callback runs processBatch only for the batch it was armed for, when that
\* batch's batchTimeout has elapsed; and a batch leaves the map only by its
\* own timer, by an append that reaches maxBatchSize, by flushSession or
\* flushAll, or by the disconnection of its session.
C35_OwnTimerOnly ==
    /\ [](\A s \in Sessions : timers[s] = {})
    /\ [][\A s \in Sessions :
            BatchTimerFire(s)
            => /\ s \in DOMAIN batchMap
               /\ batchMap[s].timer = 0
               /\ batchMap[s].age = BatchTimeout]_vars
    /\ [][\A s \in DOMAIN batchMap :
            (s \notin DOMAIN batchMap' \/ batchMap'[s].age < batchMap[s].age)
            => \/ BatchTimerFire(s) /\ batchMap[s].timer = 0
               \/ appended'[s] = appended[s] + 1
                  /\ BatchCount(s) + 1 >= llmOpts.maxBatchSize
               \/ FlushSession(s)
               \/ FlushAll
               \/ closes'[s] > closes[s]]_vars

\* C35 witness: the first batch of a session was flushed by size, so before
\* its timer ran; the batch that followed has lived its whole batchTimeout
C35_Witness ==
    \E s \in DOMAIN batchMap :
        /\ Len(requests[s]) = 1
        /\ Len(Items(requests[s][1])) = llmOpts.maxBatchSize
        /\ BatchCount(s) > 0
        /\ batchMap[s].timer = 0
        /\ batchMap[s].age = BatchTimeout

\* ------------------------------------------------------ liveness claims

\* C36: a registered connection that has answered its pings, so that isAlive
\* is set when the heartbeat tick or a pong-timeout check runs, is left
\* registered and open by that step.
C36_ResponsiveKept ==
    [][\A w \in WS :
         (/\ Current(w)
          /\ conn[w].ready = "open"
          /\ conn[w].isAlive
          /\ TickDue \/ \E v \in WS : PongTimeoutDue(v))
         => /\ Current(w)'
            /\ conn'[w].ready = "open"]_vars

\* ------------------------------------------------------ shutdown claims

\* C37: once cleanup() has returned, no batch is in batchMap and no batch
\* timeout is pending.
C37_NoBatchAfterCleanup ==
    cleanupRun = "done" => batchMap = <<>> /\ \A s \in Sessions : Due(s) = {}

\* ------------------------------------------------------ client claims

\* C38: from a call of disconnect() until the application calls connect()
\* again, connectionState is DISCONNECTED, no reconnection timeout is pending
\* and no socket is created.
C38_DisconnectIsFinal ==
    /\ [](client.userClosed
          => /\ client.connectionState = "DISCONNECTED"
             /\ client.pending = 0)
    /\ [][(client.userClosed /\ client'.userClosed)
          => FreshSocket(client') = FreshSocket(client)]_vars

\* C39: the sockets the reconnection timer has created since the last open
\* (or since construction) number at most the maxReconnectAttempts option,
\* 5 when the option is not given; at most one reconnection timeout is
\* pending; and onopen sets reconnectAttempts to 0.
C39_ReconnectBounded ==
    /\ [](client.auto <= IF client.opts.given
                         THEN client.opts.maxReconnectAttempts
                         ELSE DefaultMaxReconnectAttempts)
    /\ [](client.pending <= 1)
    /\ [][\A k \in Sockets : SocketOpen(k) => client'.reconnectAttempts = 0]_vars

====
